---------------------------- MODULE Spec2Model ----------------------------
(***************************************************************************)
(* A model of dateparser's Language class                                  *)
(* (src/dateparser/languages/language.py).                                 *)
(*                                                                         *)
(* Strings are sequences of one-character strings, so that lower(), the    *)
(* regular expressions, split() and strip() of the source are computed     *)
(* character by character.  A token list is a sequence of such strings.    *)
(***************************************************************************)
EXTENDS Naturals, Sequences, FiniteSets, TLC

VARIABLES
    normalize,          \* settings.NORMALIZE of the call being run
    pc,                 \* position of the single-threaded call being run
    tokens,             \* _join: its tokens argument
    separator,          \* _join: its separator argument
    joined,             \* _join: the string it returns
    date_string,        \* translate / is_applicable: the argument
    keep_formatting,    \* translate: the argument
    words,              \* translate: the token list (words), is_applicable: tokens
    substituted,        \* translate: the token list after dictionary substitution
    result,             \* translate / is_applicable: the value returned
    search_string,      \* translate_search: the argument
    sentences,          \* translate_search / _sentence_split: the sentence list
    pos,                \* _sentence_split: index of the list iterator (0-based)
    sidx,               \* translate_search: index of the sentence being scanned
    swords,             \* translate_search: words of the sentence being scanned
    i,                  \* translate_search: index of the word being classified
    translated_chunk,   \* translate_search: chunk in progress
    original_chunk,     \* translate_search: chunk in progress
    translated,         \* translate_search: closed chunks, then joined strings
    original,           \* translate_search: closed chunks, then joined strings
    _dictionary,                    \* Language._dictionary
    _normalized_dictionary,         \* Language._normalized_dictionary
    _simplifications,               \* Language._simplifications
    _normalized_simplifications,    \* Language._normalized_simplifications
    _simplification_patterns,       \* Language._simplification_patterns
    _splitters,                     \* Language._splitters
    _wordchars,                     \* Language._wordchars
    frame               \* per caller: the position and the locals of its call

joinVars   == <<tokens, separator, joined>>
dateVars   == <<date_string, keep_formatting, words, substituted, result>>
searchVars == <<search_string, sentences, pos, sidx, swords, i,
                translated_chunk, original_chunk, translated, original>>
cacheVars  == <<_dictionary, _normalized_dictionary, _simplifications,
                _normalized_simplifications, _simplification_patterns,
                _splitters, _wordchars, frame>>
dataVars   == <<normalize, pc, joinVars, dateVars, searchVars>>
vars       == <<dataVars, cacheVars>>

\* The sequences over S of length at most n.
SeqsUpTo(S, n) == UNION {[1..k -> S] : k \in 0..n}

\* A field that holds None, and one that holds v.
None == <<>>
Some(v) == <<v>>

-----------------------------------------------------------------------------
(* Bounds of the model.                                                    *)

MaxTokens == 3
MaxWords == 3
MaxItems == 3
Callers == 2

-----------------------------------------------------------------------------
(* Characters.                                                             *)

Digits == {"0", "1", "2", "3", "4", "5", "6", "7", "8", "9"}

UpperCase == <<"A", "B", "C", "D", "E", "F", "G", "H", "I", "J", "K", "L", "M",
               "N", "O", "P", "Q", "R", "S", "T", "U", "V", "W", "X", "Y", "Z">>
LowerCase == <<"a", "b", "c", "d", "e", "f", "g", "h", "i", "j", "k", "l", "m",
               "n", "o", "p", "q", "r", "s", "t", "u", "v", "w", "x", "y", "z">>

Letters == {UpperCase[k] : k \in 1..26} \cup {LowerCase[k] : k \in 1..26}

\* The regular expression classes \d, \w (letters, digits, underscore), \s.
IsDigitChar(c) == c \in Digits
IsWordChar(c)  == c \in Letters \/ c \in Digits \/ c = "_"
IsSpaceChar(c) == c \in {" ", "\t", "\n", "\r"}

\* str.lower() of one character.
LowerChar(c) ==
    IF \E k \in 1..26 : UpperCase[k] = c
    THEN LowerCase[CHOOSE k \in 1..26 : UpperCase[k] = c]
    ELSE c

\* str.lower()
Lower(s) == [k \in 1..Len(s) |-> LowerChar(s[k])]

\* str.isdigit(): non-empty and every character a digit.
IsDigit(s) == Len(s) > 0 /\ \A k \in 1..Len(s) : IsDigitChar(s[k])

\* filter(bool, list): the non-empty elements, in order.
FilterBool(list) == SelectSeq(list, LAMBDA x : x /= <<>>)

\* The elements of a list, as a set (Python's set(list), and `x in list`).
Elems(list) == {list[k] : k \in 1..Len(list)}

RECURSIVE Concat(_)
\* "".join(list)
Concat(list) == IF list = <<>> THEN <<>> ELSE Head(list) \o Concat(Tail(list))


RECURSIVE SortedSeq(_)
\* The elements of a finite set of naturals, ascending.
SortedSeq(S) ==
    IF S = {} THEN <<>>
    ELSE LET m == CHOOSE x \in S : \A y \in S : x <= y
         IN  <<m>> \o SortedSeq(S \ {m})

\* s cut into the pieces that start at the positions of `starts` (which holds 1
\* when s is not empty).
CutAt(s, starts) ==
    LET st == SortedSeq(starts)
    IN  [k \in 1..Len(st) |->
            SubSeq(s, st[k], IF k < Len(st) THEN st[k + 1] - 1 ELSE Len(s))]

\* Characters that do not occur in the seven-bit source text of this module,
\* each one character of the program's strings.
Ellipsis    == "U+2026"     \* horizontal ellipsis
EmDash      == "U+2014"     \* em dash
WaveDash    == "U+FF5E"     \* fullwidth tilde
AcuteAccent == "U+00B4"     \* spacing acute accent

-----------------------------------------------------------------------------
(* The language: `info`, and the collaborators built from it.              *)

\* 'no_word_spacing' in self.info
InfoNoWordSpacing == FALSE

\* self.info.get('skip', [])
InfoSkip == {<<"d", "e">>, <<AcuteAccent>>}

\* self.info.get('simplifications', []): single-entry {pattern: replacement}
\* rules, in order; a replacement is a string ([str |-> s]) or an integer
\* ([int |-> n]).
InfoSimplifications ==
    << [pattern |-> <<"h">>, replacement |-> [str |-> <<":">>]],
       [pattern |-> <<"u", "n", "o">>, replacement |-> [int |-> 1]] >>

\* The words of info's name lists, each with the canonical word it stands for.
InfoWords ==
    { << <<"e", "n">>, <<"i", "n">> >>,
      << <<"i", "n">>, <<"i", "n">> >>,
      << <<"d", "i", "a">>, <<"d", "a", "y">> >>,
      << <<"d", AcuteAccent, "a">>, <<"d", "a", "y">> >>,
      << <<"l", "u">>, <<"m", "o", "n", "d", "a", "y">> >> }

\* dictionary.ALWAYS_KEEP_TOKENS
ALWAYS_KEEP_TOKENS == {<<",">>, <<":">>}

\* utils.normalize_unicode of one character: compatibility decomposition, the
\* combining marks dropped.
NormalizeChar(c) == IF c = AcuteAccent THEN <<" ">> ELSE <<c>>

\* utils.normalize_unicode
normalize_unicode(s) == Concat([k \in 1..Len(s) |-> NormalizeChar(s[k])])

\* Dictionary(info) and NormalizedDictionary(info): a function from each known
\* word to its translation; a skip word maps to None, written <<>>.
Dictionary(normalized) ==
    LET key(w) == IF normalized THEN normalize_unicode(w) ELSE w
        keys == {key(w) : w \in InfoSkip} \cup {key(e[1]) : e \in InfoWords}
                    \cup ALWAYS_KEEP_TOKENS
    IN  [w \in keys |->
            IF w \in ALWAYS_KEEP_TOKENS THEN w
            ELSE IF \E e \in InfoWords : key(e[1]) = w
                 THEN (CHOOSE e \in InfoWords : key(e[1]) = w)[2]
                 ELSE <<>>]

\* The settings object of a call: only NORMALIZE is read.
Settings(normalized) == [NORMALIZE |-> normalized]

\* The object _generate_dictionary (or _generate_normalized_dictionary) stores:
\* its words, and its _settings, None until line 217 (or 222) writes them.
DictionaryObject(normalized) ==
    [words |-> Dictionary(normalized), _settings |-> None]

\* Dictionary.split(token, keep_formatting): the token cut into runs of word
\* characters and single other characters; without keep_formatting the latter
\* are dropped unless they are ALWAYS_KEEP_TOKENS.
DictionarySplit(token, keep) ==
    LET starts == {k \in 1..Len(token) :
                      \/ k = 1
                      \/ ~IsWordChar(token[k])
                      \/ ~IsWordChar(token[k - 1])}
        pieces == CutAt(token, starts)
    IN  SelectSeq(pieces, LAMBDA t : \/ keep
                                     \/ t \in ALWAYS_KEEP_TOKENS
                                     \/ IsWordChar(t[1]))

-----------------------------------------------------------------------------
(* Simplifier.                                                             *)

RECURSIVE IntToStr(_)
\* str(value) of a natural number.
IntToStr(n) ==
    LET d == <<"0", "1", "2", "3", "4", "5", "6", "7", "8", "9">>[(n % 10) + 1]
    IN  IF n < 10 THEN <<d>> ELSE IntToStr(n \div 10) \o <<d>>

\* _generate_simplifications(normalize): the rules of info, keys (and string
\* values) normalized on demand, integer values rendered as strings.
_generate_simplifications(normalized) ==
    [k \in 1..Len(InfoSimplifications) |->
        LET key   == InfoSimplifications[k].pattern
            value == InfoSimplifications[k].replacement
        IN  [pattern     |-> IF normalized THEN normalize_unicode(key) ELSE key,
             replacement |-> IF "int" \in DOMAIN value THEN IntToStr(value.int)
                             ELSE IF normalized THEN normalize_unicode(value.str)
                             ELSE value.str]]

\* The pattern text that _get_simplification_substitution compiles and uses as
\* the key of _simplification_patterns: the rule's pattern, wrapped between two
\* boundary groups unless the language has no word spacing.
PatternKey(simplification) ==
    IF ~InfoNoWordSpacing
    THEN <<"(\\A|\\d|_|\\W)">> \o simplification.pattern \o <<"(\\d|_|\\W|\\Z)">>
    ELSE simplification.pattern

\* One character that the groups (\d|_|\W) accept.
IsBoundaryChar(c) == IsDigitChar(c) \/ c = "_" \/ ~IsWordChar(c)

\* The literal p occurs in s at position k (re.IGNORECASE).
LiteralAt(s, p, k) ==
    /\ k + Len(p) - 1 <= Len(s)
    /\ \A j \in 1..Len(p) : LowerChar(s[k + j - 1]) = LowerChar(p[j])

\* The number of characters the group (\d|_|\W|\Z) takes at position e, the
\* group failing when e is neither a boundary character nor the end.
TrailingOk(s, e) == (e <= Len(s) /\ IsBoundaryChar(s[e])) \/ e = Len(s) + 1
TrailingLen(s, e) == IF e <= Len(s) /\ IsBoundaryChar(s[e]) THEN 1 ELSE 0

\* The wrapped pattern matches at position k with the leading group taking \A
\* (n = 0, only at the start of the string) or one boundary character (n = 1).
WrappedAt(s, p, k, n) ==
    /\ IF n = 0 THEN k = 1 ELSE k <= Len(s) /\ IsBoundaryChar(s[k])
    /\ LiteralAt(s, p, k + n)
    /\ TrailingOk(s, k + n + Len(p))

RECURSIVE SubWrapped(_, _, _, _)
\* pattern.sub(replacement, s) from position k on, for the wrapped pattern and
\* the replacement wrap_replacement_for_regex makes: the two groups are kept
\* around the rule's replacement; matches are leftmost and do not overlap.
SubWrapped(s, p, r, k) ==
    IF k > Len(s) THEN <<>>
    ELSE IF WrappedAt(s, p, k, 0) \/ WrappedAt(s, p, k, 1)
    THEN LET n == IF WrappedAt(s, p, k, 0) THEN 0 ELSE 1
             e == k + n + Len(p)
             m == TrailingLen(s, e)
         IN  SubSeq(s, k, k + n - 1) \o r \o SubSeq(s, e, e + m - 1)
                \o SubWrapped(s, p, r, e + m)
    ELSE <<s[k]>> \o SubWrapped(s, p, r, k + 1)

RECURSIVE SubVerbatim(_, _, _, _)
\* pattern.sub(replacement, s) from position k on, for a pattern used verbatim.
SubVerbatim(s, p, r, k) ==
    IF k > Len(s) THEN <<>>
    ELSE IF LiteralAt(s, p, k) THEN r \o SubVerbatim(s, p, r, k + Len(p))
    ELSE <<s[k]>> \o SubVerbatim(s, p, r, k + 1)

\* One turn of the loop of _simplify: the rule applied once, the result
\* lowercased.
ApplySimplification(s, simplification) ==
    Lower(IF ~InfoNoWordSpacing
          THEN SubWrapped(s, simplification.pattern, simplification.replacement, 1)
          ELSE SubVerbatim(s, simplification.pattern, simplification.replacement, 1))

RECURSIVE SimplifyLoop(_, _, _)
SimplifyLoop(s, simplifications, k) ==
    IF k > Len(simplifications) THEN s
    ELSE SimplifyLoop(ApplySimplification(s, simplifications[k]), simplifications, k + 1)

\* _simplify(date_string, settings), `simplifications` being the list
\* _get_simplifications(settings) returns.
_simplify(s, simplifications) == SimplifyLoop(Lower(s), simplifications, 1)

-----------------------------------------------------------------------------
(* Tokenizer.                                                              *)

\* _split_tokens_with_regex(tokens, r"(\d+)") for the one-token list _split
\* passes: the runs of digits and the runs of other characters, in order;
\* filter(bool, ...) leaves no empty piece.
_split_tokens_with_regex(s) ==
    CutAt(s, {k \in 1..Len(s) : k = 1 \/ IsDigitChar(s[k]) /= IsDigitChar(s[k - 1])})

\* _split_tokens_by_known_words(tokens, keep_formatting, settings)
_split_tokens_by_known_words(toks, keep) ==
    Concat([k \in 1..Len(toks) |-> DictionarySplit(toks[k], keep)])

\* _split(date_string, keep_formatting, settings)
_split(s, keep) ==
    _split_tokens_by_known_words(_split_tokens_with_regex(s), keep)

-----------------------------------------------------------------------------
(* Derived sets.                                                           *)

\* _set_wordchars(settings): the value stored in _wordchars, from the words of
\* the dictionary of the call's mode; a word of non-letters only is passed over.
_set_wordchars(dictionary) ==
    LET ws == {w \in DOMAIN dictionary : \E j \in 1..Len(w) : ~IsBoundaryChar(w[j])}
    IN  ((UNION {{LowerChar(w[k]) : k \in 1..Len(w)} : w \in ws}) \ {" "}) \cup Digits

\* _set_splitters(settings): the value stored in _splitters, from the word
\* characters _get_wordchars hands it.
_set_splitters(wordchars) ==
    LET capturing == ALWAYS_KEEP_TOKENS
        skip == InfoSkip \cup capturing
    IN  [wordchars |-> {t \in skip : /\ Len(t) > 0
                                     /\ \A j \in 1..Len(t) : ~IsWordChar(t[j])
                                     /\ Len(t) = 1 /\ t[1] \in wordchars},
         capturing |-> capturing]

\* What _get_splitters(settings) returns on an instance whose caches calls of
\* this mode only have filled.
Splitters(normalized) == _set_splitters(_set_wordchars(Dictionary(normalized)))

-----------------------------------------------------------------------------
(* Joiner.                                                                 *)

\* Line 207 with `or` for `and`.
NeedsSeparatorEither(left, right, capturing_splitters) ==
    left \notin capturing_splitters \/ right \notin capturing_splitters

\* Line 207 looking at the right token only.
NeedsSeparatorRightOnly(left, right, capturing_splitters) ==
    right \notin capturing_splitters

\* The test of line 207: a separator goes between left and right.
NeedsSeparator(left, right, capturing_splitters) ==
    left \notin capturing_splitters /\ right \notin capturing_splitters

RECURSIVE JoinLoop(_, _, _, _, _)
\* The loop of _join from index k on (k counts from 1 here).
JoinLoop(toks, sep, capturing_splitters, k, acc) ==
    IF k > Len(toks) THEN acc
    ELSE JoinLoop(toks, sep, capturing_splitters, k + 1,
                  acc \o (IF NeedsSeparator(toks[k - 1], toks[k], capturing_splitters)
                          THEN sep ELSE <<>>)
                      \o toks[k])

\* _join(tokens, separator, settings), `capturing_splitters` being the set
\* line 203 reads (it is not read when the token list is empty).
_join(toks, sep, capturing_splitters) ==
    IF toks = <<>> THEN <<>>
    ELSE JoinLoop(toks, sep, capturing_splitters, 2, toks[1])

-----------------------------------------------------------------------------
(* Translator.                                                             *)

freshness_words ==
    { <<"d", "a", "y">>, <<"w", "e", "e", "k">>, <<"m", "o", "n", "t", "h">>,
      <<"y", "e", "a", "r">>, <<"h", "o", "u", "r">>,
      <<"m", "i", "n", "u", "t", "e">>, <<"s", "e", "c", "o", "n", "d">> }

\* list.remove(x): the list without its first element equal to x.
ListRemove(list, x) ==
    LET first == CHOOSE k \in 1..Len(list) :
                    list[k] = x /\ \A j \in 1..(k - 1) : list[j] /= x
    IN  SubSeq(list, 1, first - 1) \o SubSeq(list, first + 1, Len(list))

\* _clear_future_words(words); its callers pass a list that holds "in".
_clear_future_words(ws) ==
    IF Elems(ws) \cap freshness_words = {} THEN ListRemove(ws, <<"i", "n">>) ELSE ws

\* Lines 49-52 of translate: each word that, lowercased, is in the dictionary
\* is replaced by its translation, None becoming ''.
Substitute(ws, dictionary) ==
    [k \in 1..Len(ws) |->
        IF Lower(ws[k]) \in DOMAIN dictionary THEN dictionary[Lower(ws[k])] ELSE ws[k]]

-----------------------------------------------------------------------------
(* Applicability.                                                          *)

\* Lines 163-167 returning on the first token, digits or not.
DigitsOnlyFirstToken(toks) == toks = <<>> \/ IsDigit(Head(toks))

RECURSIVE _is_date_consists_of_digits_only(_)
_is_date_consists_of_digits_only(toks) ==
    IF toks = <<>> THEN TRUE
    ELSE IF ~IsDigit(Head(toks)) THEN FALSE
    ELSE _is_date_consists_of_digits_only(Tail(toks))

\* The test of line 173, on one word.
IsKnownWord(word, dictionary) ==
    IsDigit(Lower(word)) \/ Lower(word) \in DOMAIN dictionary

RECURSIVE _are_all_words_in_the_dictionary(_, _)
_are_all_words_in_the_dictionary(ws, dictionary) ==
    IF ws = <<>> THEN TRUE
    ELSE IF IsKnownWord(Head(ws), dictionary)
         THEN _are_all_words_in_the_dictionary(Tail(ws), dictionary)
         ELSE FALSE

-----------------------------------------------------------------------------
(* Search segmenter.                                                       *)

dashes == { <<"-">>, <<EmDash, EmDash>>, <<EmDash>>, <<WaveDash>> }

\* The characters of the class [\.!?;...\r\n] of splitters_dict[1], which
\* _sentence_split uses when info names no sentence_splitter_group.
SentenceTerminators == {".", "!", "?", ";", Ellipsis, "\r", "\n"}

RECURSIVE SkipWhile(_, _, _)
\* The first position from k on whose character is not in S.
SkipWhile(s, k, S) ==
    IF k <= Len(s) /\ s[k] \in S THEN SkipWhile(s, k + 1, S) ELSE k

RECURSIVE ReSplit(_, _, _)
\* re.split(splitters_dict[1], string) from position k on, `cur` being the
\* piece read so far: a separator is a run of terminators and the white space
\* after it; the pieces between separators are returned, empty ones included.
ReSplit(s, k, cur) ==
    IF k > Len(s) THEN <<cur>>
    ELSE IF s[k] \in SentenceTerminators
    THEN LET e == SkipWhile(s, SkipWhile(s, k, SentenceTerminators),
                            {" ", "\t", "\n", "\r"})
         IN  <<cur>> \o ReSplit(s, e, <<>>)
    ELSE ReSplit(s, k + 1, Append(cur, s[k]))

RECURSIVE SentenceRemoveLoop(_, _)
\* The loop of lines 105-107 from iterator index p on: an empty element has the
\* first empty element of the list removed, and the iterator moves on over the
\* list as it is now.
SentenceRemoveLoop(list, p) ==
    IF p >= Len(list) THEN list
    ELSE SentenceRemoveLoop(IF list[p + 1] = <<>> THEN ListRemove(list, <<>>)
                            ELSE list, p + 1)

\* _sentence_split(string)
_sentence_split(s) == SentenceRemoveLoop(ReSplit(s, 1, <<>>), 0)

\* str.split(): the runs of characters that are not white space.
StrSplit(s) ==
    LET pieces == CutAt(s, {k \in 1..Len(s) :
                               k = 1 \/ IsSpaceChar(s[k]) /= IsSpaceChar(s[k - 1])})
    IN  SelectSeq(pieces, LAMBDA t : ~IsSpaceChar(t[1]))

\* _word_split(string, settings)
_word_split(s) == IF InfoNoWordSpacing THEN _split(s, TRUE) ELSE StrSplit(s)

\* str.strip(chars)
StrStrip(s, chars) ==
    LET keep == {k \in 1..Len(s) : s[k] \notin chars}
    IN  IF keep = {} THEN <<>>
        ELSE SubSeq(s, CHOOSE a \in keep : \A b \in keep : a <= b,
                       CHOOSE a \in keep : \A b \in keep : a >= b)

\* word.strip('()\"{}[],.')
StripWord(word) == StrStrip(word, {"(", ")", "\"", "{", "}", "[", "]", ",", "."})

\* _token_with_digits_is_ok(token)
_token_with_digits_is_ok(token) ==
    IF InfoNoWordSpacing
    THEN \E k \in 1..Len(token) : token[k] \in Digits \cup {".", ":", "-", "/"}
    ELSE \E k \in 1..Len(token) : token[k] \in Digits

\* " ".join(chunk)
SpaceJoin(chunk) ==
    Concat([k \in 1..Len(chunk) |-> IF k = 1 THEN chunk[k] ELSE <<" ">> \o chunk[k]])

\* _join_chunk(chunk, settings)
_join_chunk(chunk, capturing_splitters) ==
    IF InfoNoWordSpacing THEN _join(chunk, <<>>, capturing_splitters)
    ELSE SpaceJoin(chunk)

\* The word of line 70: lowercased, then simplified.
SimplifiedWord(word, simplifications) == _simplify(Lower(word), simplifications)

\* The test of line 71.
IsDictionaryHit(word, dictionary) ==
    StripWord(word) \in DOMAIN dictionary /\ word \notin dashes

\* Lines 71-82 looking the word up without stripping its punctuation.
ClassifyUnstripped(word, dictionary) ==
    IF word \in DOMAIN dictionary /\ word \notin dashes THEN "hit"
    ELSE IF _token_with_digits_is_ok(word) THEN "numeric"
    ELSE "unrecognized"

\* The branch lines 71-82 take for the simplified word.
Classify(word, dictionary) ==
    IF IsDictionaryHit(word, dictionary) THEN "hit"
    ELSE IF _token_with_digits_is_ok(word) THEN "numeric"
    ELSE "unrecognized"

\* What line 72 appends to the translated chunk.
HitTranslation(word, dictionary) == dictionary[StripWord(word)]

\* Line 75 appending the word of the sentence, as line 76 does.
NumericTranslationUntouched(word, original_word) == original_word

\* What line 75 appends to the translated chunk: `word` is the simplified word,
\* `original_word` the word of the sentence.
NumericTranslation(word, original_word) == word

\* Lines 73 and 76 with a fixed index for i.
OriginalWordFirst(ws, idx) == ws[1]

\* What lines 73 and 76 append to the original chunk: words[i].
OriginalWord(ws, idx) == ws[idx + 1]

\* Lines 78-82 and 83-85: a chunk in progress is pushed to the result list.
CloseChunk(closed, chunk) == IF chunk /= <<>> THEN Append(closed, chunk) ELSE closed

\* Lines 87-89 for one translated chunk, line 90 for one original chunk.
FinishTranslated(chunk, capturing_splitters) ==
    _join_chunk(FilterBool(IF <<"i", "n">> \in Elems(chunk)
                           THEN _clear_future_words(chunk) ELSE chunk),
                capturing_splitters)
FinishOriginal(chunk, capturing_splitters) ==
    _join_chunk(FilterBool(chunk), capturing_splitters)

-----------------------------------------------------------------------------
(* Inputs.                                                                 *)

\* The tokens _join is called with.
JoinTokens ==
    { <<"h", "e", "l", "l", "o">>, <<",">>, <<"w", "o", "r", "l", "d">>, <<":">> }

\* The words a date string is made of.
DateWords ==
    { <<"e", "n">>, <<"I", "n">>, <<"d", "i", "a">>, <<"5">>, <<"7", ":", "3">>,
      <<"d", "e">>, <<"x", "x">> }

\* The items a text to search is made of.
SearchItems ==
    { <<"L", "u", ",">>, <<"3", "H">>, <<"x", "x">>, <<"e", "n">>, <<".">> }

\* The items with one space between two of them.
Text(items) == SpaceJoin(items)

JoinIdle == tokens = <<>> /\ separator = <<>> /\ joined = <<>>
DateIdle ==
    /\ date_string = <<>> /\ keep_formatting = FALSE
    /\ words = <<>> /\ substituted = <<>> /\ result = <<>>
SearchIdle ==
    /\ search_string = <<>> /\ sentences = <<>> /\ pos = 0 /\ sidx = 0
    /\ swords = <<>> /\ i = 0 /\ translated_chunk = <<>> /\ original_chunk = <<>>
    /\ translated = <<>> /\ original = <<>>


CacheIdle ==
    /\ _dictionary = None /\ _normalized_dictionary = None
    /\ _simplifications = None /\ _normalized_simplifications = None
    /\ _simplification_patterns = None /\ _splitters = None /\ _wordchars = None
    /\ frame = <<>>

-----------------------------------------------------------------------------
(* The cache getters, run from beginning to end by a single caller.        *)

\* re.compile(pattern, flags=re.IGNORECASE | re.UNICODE)
Compile(key) == [pattern |-> key, flags |-> "IGNORECASE|UNICODE"]

\* _get_simplifications(settings), lines 268-278: what the field of the mode
\* holds afterwards; the list is generated when the field holds None.
SimplificationsAfter(field, normalized) ==
    IF field = None THEN Some(_generate_simplifications(normalized)) ELSE field

RunGetSimplifications(normalized) ==
    /\ _simplifications' =
          IF normalized THEN _simplifications
          ELSE SimplificationsAfter(_simplifications, FALSE)
    /\ _normalized_simplifications' =
          IF normalized THEN SimplificationsAfter(_normalized_simplifications, TRUE)
          ELSE _normalized_simplifications

\* The list _get_simplifications(settings) returns.
ReturnedSimplifications(normalized) ==
    SimplificationsAfter(IF normalized THEN _normalized_simplifications
                         ELSE _simplifications, normalized)[1]

\* _get_simplification_substitution, lines 148-152, for every rule of the
\* list: the map is created when the field holds None (no rule, no call, and
\* the field is left alone), and a pattern is compiled when its key is missing.
PatternsAfter(patterns, simplifications) ==
    IF simplifications = <<>> THEN patterns
    ELSE LET old  == IF patterns = None THEN <<>> ELSE patterns[1]
             keys == {PatternKey(simplifications[k]) : k \in 1..Len(simplifications)}
         IN  Some([key \in DOMAIN old \cup keys |->
                      IF key \in DOMAIN old THEN old[key] ELSE Compile(key)])

\* What _simplify(date_string, settings) does to the caches, lines 137-138.
RunSimplify(normalized) ==
    /\ RunGetSimplifications(normalized)
    /\ _simplification_patterns' =
          PatternsAfter(_simplification_patterns, ReturnedSimplifications(normalized))

\* _get_dictionary(settings), lines 213-223: what the field of the mode holds
\* afterwards; the dictionary is generated when the field holds None, and the
\* settings are written into it.
DictionaryAfter(field, normalized) ==
    Some([(IF field = None THEN DictionaryObject(normalized) ELSE field[1])
             EXCEPT !._settings = Some(Settings(normalized))])

RunGetDictionary(normalized) ==
    /\ _dictionary' =
          IF normalized THEN _dictionary ELSE DictionaryAfter(_dictionary, FALSE)
    /\ _normalized_dictionary' =
          IF normalized THEN DictionaryAfter(_normalized_dictionary, TRUE)
          ELSE _normalized_dictionary

\* The object _get_dictionary(settings) returns.
ReturnedDictionary(normalized) ==
    DictionaryAfter(IF normalized THEN _normalized_dictionary ELSE _dictionary,
                    normalized)[1]

\* _get_wordchars(settings), lines 225-228, with _set_wordchars: what the field
\* holds afterwards, whatever the mode it was set under.
WordcharsAfter(normalized) ==
    IF _wordchars = None
    THEN Some(_set_wordchars(ReturnedDictionary(normalized).words)) ELSE _wordchars

\* _get_splitters(settings), lines 230-233, with _set_splitters: what the field
\* holds afterwards, whatever the mode it was set under.
SplittersAfter(normalized) ==
    IF _splitters = None
    THEN Some(_set_splitters(WordcharsAfter(normalized)[1])) ELSE _splitters

\* What _get_splitters(settings) does to the caches: _set_splitters runs when
\* _splitters holds None, _set_wordchars (which calls _get_dictionary at line
\* 254) when _wordchars does too.
RunGetSplitters(normalized) ==
    IF _splitters /= None
    THEN UNCHANGED <<_splitters, _wordchars, _dictionary, _normalized_dictionary>>
    ELSE /\ IF _wordchars /= None
            THEN UNCHANGED <<_wordchars, _dictionary, _normalized_dictionary>>
            ELSE /\ RunGetDictionary(normalized)
                 /\ _wordchars' = WordcharsAfter(normalized)
         /\ _splitters' = SplittersAfter(normalized)

\* What _join(tokens, separator, settings) does to the caches: nothing for an
\* empty token list (lines 200-201), line 203 otherwise.
RunJoin(toks, normalized) ==
    IF toks = <<>>
    THEN UNCHANGED <<_splitters, _wordchars, _dictionary, _normalized_dictionary>>
    ELSE RunGetSplitters(normalized)

\* The set line 203 reads (none for an empty token list).
ReturnedCapturing(toks, normalized) ==
    IF toks = <<>> THEN {} ELSE SplittersAfter(normalized)[1].capturing

simplificationVars ==
    <<_simplifications, _normalized_simplifications, _simplification_patterns>>
dictionaryVars == <<_dictionary, _normalized_dictionary>>
splitterVars == <<_splitters, _wordchars>>

-----------------------------------------------------------------------------
(* _join, called on its own.                                               *)

InitJoin ==
    /\ pc = "_join"
    /\ normalize \in BOOLEAN
    /\ tokens \in SeqsUpTo(JoinTokens, MaxTokens)
    /\ separator \in {<<>>, <<" ">>}
    /\ joined = <<>>
    /\ DateIdle /\ SearchIdle /\ CacheIdle

Join ==
    /\ pc = "_join"
    /\ RunJoin(tokens, normalize)
    /\ joined' = _join(tokens, separator, ReturnedCapturing(tokens, normalize))
    /\ pc' = "_join_return"
    /\ UNCHANGED <<normalize, tokens, separator, dateVars, searchVars,
                   simplificationVars, frame>>

NextJoin == Join

SpecJoin == InitJoin /\ [][NextJoin]_vars

-----------------------------------------------------------------------------
(* translate and is_applicable.                                            *)

InitDate ==
    /\ pc \in {"translate", "is_applicable"}
    /\ normalize \in BOOLEAN
    /\ \E ws \in SeqsUpTo(DateWords, MaxWords) : date_string = Text(ws)
    /\ keep_formatting \in (IF pc = "translate" THEN BOOLEAN ELSE {FALSE})
    /\ words = <<>> /\ substituted = <<>> /\ result = <<>>
    /\ JoinIdle /\ SearchIdle /\ CacheIdle

\* translate, lines 45-46
TranslateSplit ==
    /\ pc = "translate"
    /\ RunSimplify(normalize)
    /\ RunGetDictionary(normalize)
    /\ words' = _split(_simplify(date_string, ReturnedSimplifications(normalize)),
                       keep_formatting)
    /\ pc' = "translate_substitute"
    /\ UNCHANGED <<normalize, date_string, keep_formatting, substituted, result,
                   joinVars, searchVars, splitterVars, frame>>

\* translate, lines 48-52
TranslateSubstitute ==
    /\ pc = "translate_substitute"
    /\ RunGetDictionary(normalize)
    /\ substituted' = Substitute(words, ReturnedDictionary(normalize).words)
    /\ pc' = "translate_clear"
    /\ UNCHANGED <<normalize, date_string, keep_formatting, words, result,
                   joinVars, searchVars, simplificationVars, splitterVars, frame>>

\* translate, lines 53-54
TranslateClear ==
    /\ pc = "translate_clear"
    /\ words' = IF <<"i", "n">> \in Elems(substituted)
                THEN _clear_future_words(substituted) ELSE substituted
    /\ pc' = "translate_join"
    /\ UNCHANGED <<normalize, date_string, keep_formatting, substituted, result,
                   joinVars, searchVars, cacheVars>>

\* translate, lines 56-57
TranslateJoin ==
    /\ pc = "translate_join"
    /\ RunJoin(FilterBool(words), normalize)
    /\ result' = _join(FilterBool(words), IF keep_formatting THEN <<>> ELSE <<" ">>,
                        ReturnedCapturing(FilterBool(words), normalize))
    /\ pc' = "translate_return"
    /\ UNCHANGED <<normalize, date_string, keep_formatting, words, substituted,
                   joinVars, searchVars, simplificationVars, frame>>

\* is_applicable with strip_timezone false, lines 37-38
ApplicableSplit ==
    /\ pc = "is_applicable"
    /\ RunSimplify(normalize)
    /\ RunGetDictionary(normalize)
    /\ words' = _split(_simplify(date_string, ReturnedSimplifications(normalize)),
                       FALSE)
    /\ pc' = "is_applicable_decide"
    /\ UNCHANGED <<normalize, date_string, keep_formatting, substituted, result,
                   joinVars, searchVars, splitterVars, frame>>

\* is_applicable, lines 39-42
ApplicableDecide ==
    /\ pc = "is_applicable_decide"
    /\ IF _is_date_consists_of_digits_only(words)
       THEN /\ result' = TRUE
            /\ UNCHANGED dictionaryVars
       ELSE /\ RunGetDictionary(normalize)
            /\ result' = _are_all_words_in_the_dictionary(
                             words, ReturnedDictionary(normalize).words)
    /\ pc' = "is_applicable_return"
    /\ UNCHANGED <<normalize, date_string, keep_formatting, words, substituted,
                   joinVars, searchVars, simplificationVars, splitterVars, frame>>

NextDate ==
    \/ TranslateSplit \/ TranslateSubstitute \/ TranslateClear \/ TranslateJoin
    \/ ApplicableSplit \/ ApplicableDecide

SpecDate == InitDate /\ [][NextDate]_vars

-----------------------------------------------------------------------------
(* translate_search.                                                       *)

InitSearch ==
    /\ pc = "translate_search"
    /\ normalize \in BOOLEAN
    /\ \E items \in SeqsUpTo(SearchItems, MaxItems) : search_string = Text(items)
    /\ sentences = <<>> /\ pos = 0 /\ sidx = 0
    /\ swords = <<>> /\ i = 0 /\ translated_chunk = <<>> /\ original_chunk = <<>>
    /\ translated = <<>> /\ original = <<>>
    /\ JoinIdle /\ DateIdle /\ CacheIdle

\* translate_search, line 61, entering _sentence_split, lines 94-104
SentenceSplit ==
    /\ pc = "translate_search"
    /\ sentences' = ReSplit(search_string, 1, <<>>)
    /\ pos' = 0
    /\ pc' = "_sentence_split_loop"
    /\ UNCHANGED <<normalize, search_string, sidx, swords, i, translated_chunk,
                   original_chunk, translated, original, joinVars, dateVars, cacheVars>>

\* _sentence_split, lines 105-107: the list iterator yields the element at its
\* index and moves on; an empty element has the first empty element of the
\* list removed, while the iteration goes on over the same list.
SentenceRemoveStep ==
    /\ pc = "_sentence_split_loop"
    /\ pos < Len(sentences)
    /\ sentences' = IF sentences[pos + 1] = <<>>
                    THEN ListRemove(sentences, <<>>) ELSE sentences
    /\ pos' = pos + 1
    /\ UNCHANGED <<normalize, pc, search_string, sidx, swords, i, translated_chunk,
                   original_chunk, translated, original, joinVars, dateVars, cacheVars>>

\* _sentence_split, lines 105 and 108: the iterator is exhausted; back in
\* translate_search, lines 62-64
SentenceSplitReturn ==
    /\ pc = "_sentence_split_loop"
    /\ pos >= Len(sentences)
    /\ RunGetDictionary(normalize)
    /\ translated' = <<>>
    /\ original' = <<>>
    /\ sidx' = 0
    /\ pc' = "sentence"
    /\ UNCHANGED <<normalize, search_string, sentences, pos, swords, i,
                   translated_chunk, original_chunk, joinVars, dateVars,
                   simplificationVars, splitterVars, frame>>

\* translate_search, lines 65-68: the next sentence
NextSentence ==
    /\ pc = "sentence"
    /\ sidx < Len(sentences)
    /\ sidx' = sidx + 1
    /\ swords' = _word_split(sentences[sidx + 1])
    /\ IF InfoNoWordSpacing THEN RunGetDictionary(normalize)
       ELSE UNCHANGED dictionaryVars
    /\ translated_chunk' = <<>>
    /\ original_chunk' = <<>>
    /\ i' = 0
    /\ pc' = "word"
    /\ UNCHANGED <<normalize, search_string, sentences, pos, translated, original,
                   joinVars, dateVars, simplificationVars, splitterVars, frame>>

\* translate_search, lines 69-82: one word of the sentence
ClassifyWord ==
    /\ pc = "word"
    /\ i < Len(swords)
    /\ RunSimplify(normalize)
    /\ LET word == SimplifiedWord(swords[i + 1], ReturnedSimplifications(normalize))
           dictionary == (IF normalize THEN _normalized_dictionary[1]
                          ELSE _dictionary[1]).words
           class == Classify(word, dictionary)
       IN  \/ /\ class = "hit"
              /\ translated_chunk' =
                    Append(translated_chunk, HitTranslation(word, dictionary))
              /\ original_chunk' = Append(original_chunk, OriginalWord(swords, i))
              /\ UNCHANGED <<translated, original>>
           \/ /\ class = "numeric"
              /\ translated_chunk' =
                    Append(translated_chunk, NumericTranslation(word, swords[i + 1]))
              /\ original_chunk' = Append(original_chunk, OriginalWord(swords, i))
              /\ UNCHANGED <<translated, original>>
           \/ /\ class = "unrecognized"
              /\ translated' = CloseChunk(translated, translated_chunk)
              /\ original' = CloseChunk(original, original_chunk)
              /\ translated_chunk' = <<>>
              /\ original_chunk' = <<>>
    /\ i' = i + 1
    /\ UNCHANGED <<normalize, pc, search_string, sentences, pos, sidx, swords,
                   joinVars, dateVars, dictionaryVars, splitterVars, frame>>

\* translate_search, lines 83-85: the end of the sentence
EndSentence ==
    /\ pc = "word"
    /\ i >= Len(swords)
    /\ translated' = CloseChunk(translated, translated_chunk)
    /\ original' = CloseChunk(original, original_chunk)
    /\ pc' = "sentence"
    /\ UNCHANGED <<normalize, search_string, sentences, pos, sidx, swords, i,
                   translated_chunk, original_chunk, joinVars, dateVars, cacheVars>>

\* translate_search, lines 86-91: every chunk is joined into a string
Finish ==
    /\ pc = "sentence"
    /\ sidx >= Len(sentences)
    /\ IF InfoNoWordSpacing /\ original /= <<>>
       THEN RunGetSplitters(normalize)
       ELSE UNCHANGED <<splitterVars, dictionaryVars>>
    /\ LET capturing_splitters == IF InfoNoWordSpacing /\ original /= <<>>
                                  THEN SplittersAfter(normalize)[1].capturing
                                  ELSE {}
       IN  /\ translated' = [k \in 1..Len(translated) |->
                                FinishTranslated(translated[k], capturing_splitters)]
           /\ original' = [k \in 1..Len(original) |->
                              FinishOriginal(original[k], capturing_splitters)]
    /\ pc' = "translate_search_return"
    /\ UNCHANGED <<normalize, search_string, sentences, pos, sidx, swords, i,
                   translated_chunk, original_chunk, joinVars, dateVars,
                   simplificationVars, frame>>

NextSearch ==
    \/ SentenceSplit \/ SentenceRemoveStep \/ SentenceSplitReturn
    \/ NextSentence \/ ClassifyWord \/ EndSentence \/ Finish

SpecSearch == InitSearch /\ [][NextSearch]_vars

-----------------------------------------------------------------------------
(* The lazily filled caches, and the callers that fill them.               *)
(*                                                                         *)
(* A caller runs translate, is_applicable or translate_search, one call    *)
(* after the other, and several callers may share the instance.  A step is *)
(* one test, one store or one return of a getter; the work a call does     *)
(* between two getters is part of the step that ends the first one.        *)

\* The strings the callers pass.
CallStrings == { <<>>, <<"5">>, <<"x", "x">> }

NewFrame(op, mode, s) ==
    [pc |-> "_get_simplifications", op |-> op, normalize |-> mode,
     date_string |-> s, words |-> <<>>, todo |-> 0, site |-> "none", k |-> 1,
     simplifications |-> None, pattern |-> None, dictionary |-> None,
     wordchars |-> None, splitters |-> None]

IdleFrame == [NewFrame("none", FALSE, <<>>) EXCEPT !.pc = "idle"]

\* The key of the rule caller t is at.
KeyOf(t) == PatternKey(frame[t].simplifications[1][frame[t].k])

\* The words translate_search will classify: those of every sentence.
WordsToClassify(s) ==
    LET sents == _sentence_split(s)
    IN  Concat([k \in 1..Len(sents) |-> _word_split(sents[k])])

\* The token list translate joins, lines 49-57, from the tokens and the
\* dictionary line 48 was handed.
TokensToJoin(ws, dictionary) ==
    LET subst == Substitute(ws, dictionary)
    IN  FilterBool(IF <<"i", "n">> \in Elems(subst)
                   THEN _clear_future_words(subst) ELSE subst)

\* A public operation is called with a string and settings: translate and
\* is_applicable begin with _simplify (lines 45 and 37), translate_search with
\* _sentence_split and then _get_dictionary (lines 61-62).
Call(t) ==
    /\ frame[t].pc = "idle"
    /\ \E op \in {"translate", "is_applicable", "translate_search"},
          mode \in BOOLEAN, s \in CallStrings :
          frame' = [frame EXCEPT ![t] =
                      IF op = "translate_search"
                      THEN [NewFrame(op, mode, s) EXCEPT
                               !.pc = "dictionary_is_none",
                               !.site = "translate_search",
                               !.todo = Len(WordsToClassify(s))]
                      ELSE NewFrame(op, mode, s)]
    /\ UNCHANGED <<dataVars, simplificationVars, dictionaryVars, splitterVars>>

\* _simplify, line 137: _get_simplifications, the test of line 270 (or 275)
SimplificationsIsNone(t) ==
    /\ frame[t].pc = "_get_simplifications"
    /\ frame' = [frame EXCEPT ![t].pc =
                    IF (IF frame[t].normalize THEN _normalized_simplifications
                        ELSE _simplifications) = None
                    THEN "store_simplifications" ELSE "simplifications_return"]
    /\ UNCHANGED <<dataVars, simplificationVars, dictionaryVars, splitterVars>>

\* _get_simplifications, line 271 (or 276): the list is generated and stored
StoreSimplifications(t) ==
    /\ frame[t].pc = "store_simplifications"
    /\ IF frame[t].normalize
       THEN /\ _normalized_simplifications' = Some(_generate_simplifications(TRUE))
            /\ UNCHANGED _simplifications
       ELSE /\ _simplifications' = Some(_generate_simplifications(FALSE))
            /\ UNCHANGED _normalized_simplifications
    /\ frame' = [frame EXCEPT ![t].pc = "simplifications_return"]
    /\ UNCHANGED <<dataVars, _simplification_patterns, dictionaryVars, splitterVars>>

\* _get_simplifications, line 273 (or 278): the field is read and returned;
\* the loop of _simplify begins
SimplificationsReturn(t) ==
    /\ frame[t].pc = "simplifications_return"
    /\ frame' = [frame EXCEPT
                    ![t].simplifications = IF frame[t].normalize
                                           THEN _normalized_simplifications
                                           ELSE _simplifications,
                    ![t].k = 1,
                    ![t].pc = "patterns_is_none"]
    /\ UNCHANGED <<dataVars, simplificationVars, dictionaryVars, splitterVars>>

\* _simplify, line 137: the loop ends.  translate and is_applicable go on to
\* _split, whose line 194 calls _get_dictionary; translate_search classifies
\* the word (lines 71-82) and simplifies the next one, or returns.
SimplifyDone(t) ==
    /\ frame[t].pc = "patterns_is_none"
    /\ frame[t].k > Len(frame[t].simplifications[1])
    /\ frame' = [frame EXCEPT ![t] =
                    IF frame[t].op = "translate_search"
                    THEN [@ EXCEPT !.todo = @ - 1,
                                   !.pc = IF frame[t].todo > 1
                                          THEN "_get_simplifications" ELSE "return"]
                    ELSE [@ EXCEPT !.site = "_split", !.pc = "dictionary_is_none"]]
    /\ UNCHANGED <<dataVars, simplificationVars, dictionaryVars, splitterVars>>

\* _get_simplification_substitution, lines 143-148
PatternsIsNone(t) ==
    /\ frame[t].pc = "patterns_is_none"
    /\ frame[t].k <= Len(frame[t].simplifications[1])
    /\ frame' = [frame EXCEPT ![t].pc = IF _simplification_patterns = None
                                        THEN "patterns_init" ELSE "pattern_in"]
    /\ UNCHANGED <<dataVars, simplificationVars, dictionaryVars, splitterVars>>

\* _get_simplification_substitution, line 149
PatternsInit(t) ==
    /\ frame[t].pc = "patterns_init"
    /\ _simplification_patterns' = Some(<<>>)
    /\ frame' = [frame EXCEPT ![t].pc = "pattern_in"]
    /\ UNCHANGED <<dataVars, _simplifications, _normalized_simplifications,
                   dictionaryVars, splitterVars>>

\* _get_simplification_substitution, line 151
PatternIn(t) ==
    /\ frame[t].pc = "pattern_in"
    /\ frame' = [frame EXCEPT ![t].pc =
                    IF KeyOf(t) \notin DOMAIN _simplification_patterns[1]
                    THEN "pattern_compile" ELSE "pattern_lookup"]
    /\ UNCHANGED <<dataVars, simplificationVars, dictionaryVars, splitterVars>>

\* _get_simplification_substitution, line 152
PatternCompile(t) ==
    /\ frame[t].pc = "pattern_compile"
    /\ _simplification_patterns' =
          Some([key \in DOMAIN _simplification_patterns[1] \cup {KeyOf(t)} |->
                   IF key = KeyOf(t) THEN Compile(key)
                   ELSE _simplification_patterns[1][key]])
    /\ frame' = [frame EXCEPT ![t].pc = "pattern_lookup"]
    /\ UNCHANGED <<dataVars, _simplifications, _normalized_simplifications,
                   dictionaryVars, splitterVars>>

\* _get_simplification_substitution, lines 153-154: the lookup raises KeyError
\* when the map does not hold the key; otherwise _simplify, line 139
PatternLookup(t) ==
    /\ frame[t].pc = "pattern_lookup"
    /\ frame' = IF KeyOf(t) \in DOMAIN _simplification_patterns[1]
                THEN [frame EXCEPT ![t].pattern =
                                        Some(_simplification_patterns[1][KeyOf(t)]),
                                   ![t].k = @ + 1,
                                   ![t].pc = "patterns_is_none"]
                ELSE [frame EXCEPT ![t].pc = "KeyError"]
    /\ UNCHANGED <<dataVars, simplificationVars, dictionaryVars, splitterVars>>

\* _get_dictionary(settings), the test of line 215 (or 220); it is called at
\* line 194 (_split), line 48 (translate), line 170
\* (_are_all_words_in_the_dictionary), line 254 (_set_wordchars) and line 62
\* (translate_search)
DictionaryIsNone(t) ==
    /\ frame[t].pc = "dictionary_is_none"
    /\ frame' = [frame EXCEPT ![t].pc =
                    IF (IF frame[t].normalize THEN _normalized_dictionary
                        ELSE _dictionary) = None
                    THEN "generate_dictionary" ELSE "dictionary_settings"]
    /\ UNCHANGED <<dataVars, simplificationVars, dictionaryVars, splitterVars>>

\* _get_dictionary, line 216 (or 221): _generate_dictionary, line 263 (or
\* _generate_normalized_dictionary, line 266)
GenerateDictionary(t) ==
    /\ frame[t].pc = "generate_dictionary"
    /\ IF frame[t].normalize
       THEN /\ _normalized_dictionary' = Some(DictionaryObject(TRUE))
            /\ UNCHANGED _dictionary
       ELSE /\ _dictionary' = Some(DictionaryObject(FALSE))
            /\ UNCHANGED _normalized_dictionary
    /\ frame' = [frame EXCEPT ![t].pc = "dictionary_settings"]
    /\ UNCHANGED <<dataVars, simplificationVars, splitterVars>>

\* Where the caller of _get_dictionary goes on, and what it has computed by
\* its next getter: `f` is the frame, `dictionary` the words handed to it.
AfterDictionary(f, dictionary) ==
    CASE f.site = "_split" ->
            LET toks == _split(_simplify(f.date_string, f.simplifications[1]), FALSE)
            IN  IF f.op = "translate"
                THEN [f EXCEPT !.words = toks, !.site = "translate",
                               !.pc = "dictionary_is_none"]
                ELSE IF _is_date_consists_of_digits_only(toks)
                THEN [f EXCEPT !.words = toks, !.pc = "return"]
                ELSE [f EXCEPT !.words = toks,
                               !.site = "_are_all_words_in_the_dictionary",
                               !.pc = "dictionary_is_none"]
      [] f.site = "translate" ->
            [f EXCEPT !.pc = IF TokensToJoin(f.words, dictionary) = <<>>
                             THEN "return" ELSE "splitters_is_none"]
      [] f.site = "_are_all_words_in_the_dictionary" -> [f EXCEPT !.pc = "return"]
      [] f.site = "_set_wordchars" -> [f EXCEPT !.pc = "store_wordchars"]
      [] f.site = "translate_search" ->
            [f EXCEPT !.pc = IF f.todo > 0 THEN "_get_simplifications" ELSE "return"]

\* _get_dictionary, line 217 (or 222): the settings are written into the
\* dictionary the field holds now
DictionarySettings(t) ==
    /\ frame[t].pc = "dictionary_settings"
    /\ IF frame[t].normalize
       THEN /\ _normalized_dictionary' =
                  Some([_normalized_dictionary[1] EXCEPT
                           !._settings = Some(Settings(TRUE))])
            /\ UNCHANGED _dictionary
       ELSE /\ _dictionary' =
                  Some([_dictionary[1] EXCEPT !._settings = Some(Settings(FALSE))])
            /\ UNCHANGED _normalized_dictionary
    /\ frame' = [frame EXCEPT ![t].pc = "dictionary_return"]
    /\ UNCHANGED <<dataVars, simplificationVars, splitterVars>>

\* _get_dictionary, line 218 (or 223): the field is read again and the
\* dictionary it holds now is returned; the caller goes on
DictionaryReturn(t) ==
    /\ frame[t].pc = "dictionary_return"
    /\ LET returned == IF frame[t].normalize THEN _normalized_dictionary
                       ELSE _dictionary
       IN  frame' = [frame EXCEPT ![t] =
                        AfterDictionary([frame[t] EXCEPT !.dictionary = returned],
                                        returned[1].words)]
    /\ UNCHANGED <<dataVars, simplificationVars, dictionaryVars, splitterVars>>

\* _join, line 203: _get_splitters, line 231
SplittersIsNone(t) ==
    /\ frame[t].pc = "splitters_is_none"
    /\ frame' = [frame EXCEPT ![t].pc = IF _splitters = None
                                        THEN "wordchars_is_none" ELSE "splitters_return"]
    /\ UNCHANGED <<dataVars, simplificationVars, dictionaryVars, splitterVars>>

\* _set_splitters, lines 236-242: _get_wordchars, line 226; _set_wordchars
\* begins with _get_dictionary (line 254)
WordcharsIsNone(t) ==
    /\ frame[t].pc = "wordchars_is_none"
    /\ frame' = [frame EXCEPT ![t] =
                    IF _wordchars = None
                    THEN [@ EXCEPT !.site = "_set_wordchars",
                                   !.pc = "dictionary_is_none"]
                    ELSE [@ EXCEPT !.pc = "wordchars_return"]]
    /\ UNCHANGED <<dataVars, simplificationVars, dictionaryVars, splitterVars>>

\* _set_wordchars, lines 254-260, over the dictionary it was handed
StoreWordchars(t) ==
    /\ frame[t].pc = "store_wordchars"
    /\ _wordchars' = Some(_set_wordchars(frame[t].dictionary[1].words))
    /\ frame' = [frame EXCEPT ![t].pc = "wordchars_return"]
    /\ UNCHANGED <<dataVars, simplificationVars, dictionaryVars, _splitters>>

\* _get_wordchars, line 228; back in _set_splitters, line 242
WordcharsReturn(t) ==
    /\ frame[t].pc = "wordchars_return"
    /\ frame' = [frame EXCEPT ![t].wordchars = _wordchars,
                              ![t].pc = "store_splitters"]
    /\ UNCHANGED <<dataVars, simplificationVars, dictionaryVars, splitterVars>>

\* _set_splitters, lines 243-250
StoreSplitters(t) ==
    /\ frame[t].pc = "store_splitters"
    /\ _splitters' = Some(_set_splitters(frame[t].wordchars[1]))
    /\ frame' = [frame EXCEPT ![t].pc = "splitters_return"]
    /\ UNCHANGED <<dataVars, simplificationVars, dictionaryVars, _wordchars>>

\* _get_splitters, line 233; back in _join, lines 203-211
SplittersReturn(t) ==
    /\ frame[t].pc = "splitters_return"
    /\ frame' = [frame EXCEPT ![t].splitters = _splitters, ![t].pc = "return"]
    /\ UNCHANGED <<dataVars, simplificationVars, dictionaryVars, splitterVars>>

\* The call returns.
Return(t) ==
    /\ frame[t].pc = "return"
    /\ frame' = [frame EXCEPT ![t] = IdleFrame]
    /\ UNCHANGED <<dataVars, simplificationVars, dictionaryVars, splitterVars>>

CallerStep(t) ==
    \/ Call(t)
    \/ SimplificationsIsNone(t) \/ StoreSimplifications(t) \/ SimplificationsReturn(t)
    \/ SimplifyDone(t)
    \/ PatternsIsNone(t) \/ PatternsInit(t) \/ PatternIn(t)
    \/ PatternCompile(t) \/ PatternLookup(t)
    \/ DictionaryIsNone(t) \/ GenerateDictionary(t) \/ DictionarySettings(t)
    \/ DictionaryReturn(t)
    \/ SplittersIsNone(t) \/ WordcharsIsNone(t) \/ StoreWordchars(t)
    \/ WordcharsReturn(t) \/ StoreSplitters(t) \/ SplittersReturn(t)
    \/ Return(t)

NextCache == CallerStep(1)
NextRace == \E t \in 1..Callers : CallerStep(t)

InitCallers(n) ==
    /\ pc = "idle" /\ normalize = FALSE
    /\ JoinIdle /\ DateIdle /\ SearchIdle
    /\ _dictionary = None /\ _normalized_dictionary = None
    /\ _simplifications = None /\ _normalized_simplifications = None
    /\ _simplification_patterns = None /\ _splitters = None /\ _wordchars = None
    /\ frame = [t \in 1..n |-> IdleFrame]

\* One caller: the calls follow one another.
InitCache == InitCallers(1)
SpecCache == InitCache /\ [][NextCache]_vars

\* Several callers share the instance: their steps interleave.
InitRace == InitCallers(Callers)
SpecRace == InitRace /\ [][NextRace]_vars

-----------------------------------------------------------------------------
(* Properties of _join (SpecJoin).                                         *)

hello == <<"h", "e", "l", "l", "o">>
comma == <<",">>
world == <<"w", "o", "r", "l", "d">>

\* The capturing-splitter set _join reads.
CapturingSplitters == Splitters(normalize).capturing

\* C5: _join returns "" for an empty token list, and otherwise every token, in
\* the given order, each after the first preceded by the separator exactly
\* when neither it nor the token before it is a capturing splitter.
C5_JoinKeepsTokensAndSeparates ==
    pc = "_join_return" =>
        joined = Concat([k \in 1..Len(tokens) |->
                    (IF /\ k > 1
                        /\ tokens[k - 1] \notin CapturingSplitters
                        /\ tokens[k] \notin CapturingSplitters
                     THEN separator ELSE <<>>) \o tokens[k]])

\* C5 witness: three tokens joined with a space, one pair that takes the
\* separator and one that does not.
C5_Witness ==
    /\ pc = "_join_return"
    /\ separator = <<" ">>
    /\ Len(tokens) = 3
    /\ tokens[1] \notin CapturingSplitters /\ tokens[2] \notin CapturingSplitters
    /\ tokens[3] \in CapturingSplitters
    /\ Len(joined) = Len(tokens[1]) + 1 + Len(tokens[2]) + Len(tokens[3])

C6_Case ==
    /\ pc = "_join_return"
    /\ tokens = <<hello, comma, world>>
    /\ separator = <<" ">>
    /\ comma \in CapturingSplitters
    /\ hello \notin CapturingSplitters /\ world \notin CapturingSplitters

\* C6 as stated: joining ["hello", ",", "world"] with a space, "," a capturing
\* splitter, yields "hello, world".
C6_Original ==
    C6_Case => joined = hello \o <<",", " ">> \o world

\* C6 as amended: joining ["hello", ",", "world"] with a space, "," a capturing
\* splitter, yields "hello,world": no separator on either side of the comma.
C6_JoinAroundComma ==
    C6_Case => joined = hello \o <<",">> \o world

\* C6 witness: the join of the three tokens has returned.
C6_Witness == C6_Case /\ Len(joined) = 11

-----------------------------------------------------------------------------
(* Properties of translate and is_applicable (SpecDate).                   *)

\* The number of elements of a list equal to x.
Count(list, x) == Cardinality({k \in 1..Len(list) : list[k] = x})

\* C1: the token list translate joins holds no "in" when the list obtained by
\* dictionary substitution holds no time-unit word, and every "in" of that list
\* when it holds one.
C1_InRemovedUnlessTimeUnit ==
    pc \in {"translate_join", "translate_return"} =>
        IF Elems(substituted) \cap freshness_words = {}
        THEN <<"i", "n">> \notin Elems(FilterBool(words))
        ELSE Count(FilterBool(words), <<"i", "n">>) = Count(substituted, <<"i", "n">>)

\* C4: is_applicable returns true if and only if every token is digits only
\* or, lowercased, a word of the dictionary.
C4_ApplicableIffAllTokensKnown ==
    pc = "is_applicable_return" =>
        (result = TRUE) <=>
            \A k \in 1..Len(words) :
                \/ \A j \in 1..Len(words[k]) : words[k][j] \in Digits
                \/ Lower(words[k]) \in DOMAIN Dictionary(normalize)

\* C4 witness: a string with a digit token followed by a word that is not
\* digits has been decided.
C4_Witness ==
    /\ pc = "is_applicable_return"
    /\ Len(words) >= 2
    /\ IsDigit(words[1])
    /\ ~IsDigit(words[2])

-----------------------------------------------------------------------------
(* Properties of translate_search (SpecSearch).                            *)

\* The lowercased, simplified form of a word of the text.
Simplified(w) == _simplify(Lower(w), _generate_simplifications(normalize))

\* A word of the text is a dictionary hit; it looks numeric.
IsHit(w) ==
    /\ StripWord(Simplified(w)) \in DOMAIN Dictionary(normalize)
    /\ Simplified(w) \notin dashes
LooksNumeric(w) == _token_with_digits_is_ok(Simplified(w))
Recognized(w) == IsHit(w) \/ LooksNumeric(w)

\* The translation of a recognized word of the text.
TranslationOf(w) ==
    IF IsHit(w) THEN Dictionary(normalize)[StripWord(Simplified(w))] ELSE Simplified(w)

\* The chunks are lists of words (they are strings once Finish has run).
ChunksAreLists == pc \in {"sentence", "word"}

\* A translated list of words and an original one are aligned word by word.
Aligned(tr, orig) ==
    /\ Len(tr) = Len(orig)
    /\ \A j \in 1..Len(orig) : tr[j] = TranslationOf(orig[j])

\* C2: at every step the chunk in progress holds as many translated words as
\* original ones and the two result lists as many chunks; each translated
\* chunk is made of the translations of the words of the original chunk of
\* the same index, also in the strings returned.
C2_ChunksAligned ==
    /\ Len(translated_chunk) = Len(original_chunk)
    /\ Len(translated) = Len(original)
    /\ ChunksAreLists =>
          /\ Aligned(translated_chunk, original_chunk)
          /\ \A k \in 1..Len(original) : Aligned(translated[k], original[k])
    /\ pc = "translate_search_return" =>
          \A k \in 1..Len(original) :
              LET ws == StrSplit(original[k])
              IN  translated[k] =
                      FinishTranslated([j \in 1..Len(ws) |-> TranslationOf(ws[j])],
                                       Splitters(normalize).capturing)

\* C2 witness: a chunk of two words has been returned, its translation
\* differing from the original text.
C2_Witness ==
    /\ pc = "translate_search_return"
    /\ \E k \in 1..Len(original) :
          /\ Len(StrSplit(original[k])) >= 2
          /\ translated[k] /= original[k]
          /\ translated[k] /= <<>>

\* The maximal runs of recognized words of a list of words, in order.
MaximalRuns(ws) ==
    LET starts == {a \in 1..Len(ws) :
                      Recognized(ws[a]) /\ (a = 1 \/ ~Recognized(ws[a - 1]))}
        EndOf(a) == CHOOSE b \in a..Len(ws) :
                      /\ \A c \in a..b : Recognized(ws[c])
                      /\ b = Len(ws) \/ ~Recognized(ws[b + 1])
        st == SortedSeq(starts)
    IN  [k \in 1..Len(st) |-> SubSeq(ws, st[k], EndOf(st[k]))]

\* The maximal runs of the first n sentences, sentence after sentence.
RunsOfSentences(n) ==
    Concat([k \in 1..n |-> MaximalRuns(_word_split(sentences[k]))])

\* C3: the chunks are exactly the maximal runs of recognized or numeric-looking
\* words of each sentence, in order: no unrecognized word is in a chunk, an
\* unrecognized word between two recognized ones separates two chunks, and no
\* chunk goes past the end of its sentence.
C3_ChunksAreMaximalRuns ==
    /\ pc = "sentence" => original = RunsOfSentences(sidx)
    /\ ChunksAreLists =>
          \A k \in 1..Len(original) : \A j \in 1..Len(original[k]) :
              Recognized(original[k][j])
    /\ pc = "translate_search_return" =>
          original = [k \in 1..Len(RunsOfSentences(Len(sentences))) |->
                         SpaceJoin(RunsOfSentences(Len(sentences))[k])]

\* C3 witness: a sentence of three words has given two chunks, so that an
\* unrecognized word stood between two recognized ones.
C3_Witness ==
    /\ pc = "translate_search_return"
    /\ Len(sentences) = 1
    /\ Len(original) = 2
    /\ Len(StrSplit(sentences[1])) = 3

\* C8: the list _sentence_split returns holds no empty string.
C8_NoEmptySentence ==
    pc \notin {"translate_search", "_sentence_split_loop"} =>
        <<>> \notin Elems(sentences)

\* The word just classified was no dictionary hit and looked numeric.
NumericJustAppended ==
    /\ pc = "word"
    /\ i > 0
    /\ ~IsHit(swords[i])
    /\ LooksNumeric(swords[i])

\* C9 as stated: for a numeric-looking word that is no dictionary hit, the
\* string appended to the translated chunk is the string appended to the
\* original chunk, the untouched word of the input.
C9_Original ==
    NumericJustAppended =>
        /\ original_chunk[Len(original_chunk)] = swords[i]
        /\ translated_chunk[Len(translated_chunk)] = original_chunk[Len(original_chunk)]

\* C9 as amended: for a numeric-looking word that is no dictionary hit, the
\* original chunk receives the untouched word of the input and the translated
\* chunk its lowercased and simplified form.
C9_NumericWordSimplified ==
    NumericJustAppended =>
        /\ original_chunk[Len(original_chunk)] = swords[i]
        /\ translated_chunk[Len(translated_chunk)] = Simplified(swords[i])

\* C9 witness: a numeric-looking word has been appended whose simplified form
\* is not the word itself.
C9_Witness ==
    /\ NumericJustAppended
    /\ translated_chunk /= <<>>
    /\ translated_chunk[Len(translated_chunk)] /= swords[i]

-----------------------------------------------------------------------------
(* Properties of the caches (SpecCache, SpecRace).                         *)

\* A field is unset, or holds v.
NoneOr(field, v) == field = None \/ field = Some(v)

\* C7: every cache value a call has been handed (the simplification list, the
\* compiled pattern, the dictionary, the word characters, the splitters) is
\* the one built from the data of the call's own normalization mode.
C7_CachesNeverMixed ==
    \A t \in DOMAIN frame :
        LET f == frame[t]
            m == f.normalize
        IN  /\ NoneOr(f.simplifications, _generate_simplifications(m))
            /\ \/ f.pattern = None
               \/ \E r \in Elems(_generate_simplifications(m)) :
                     f.pattern = Some(Compile(PatternKey(r)))
            /\ f.dictionary = None \/ f.dictionary[1].words = Dictionary(m)
            /\ NoneOr(f.wordchars, _set_wordchars(Dictionary(m)))
            /\ NoneOr(f.splitters, Splitters(m))

\* The keys the pattern map holds once the calls made so far are over: those
\* of the rules of every mode whose simplification list has been built.
BuiltPatternKeys ==
    {PatternKey(r) : r \in
        (IF _simplifications = None THEN {} ELSE Elems(_simplifications[1]))
        \cup (IF _normalized_simplifications = None THEN {}
              ELSE Elems(_normalized_simplifications[1]))}

\* C10: with several callers on one instance, no interleaving of the cache
\* population steps ends in an error, and once every call is over each cache
\* holds what calls made one after the other leave in it.
C10_FirstUseRaceFree ==
    /\ \A t \in DOMAIN frame : frame[t].pc /= "KeyError"
    /\ (\A t \in DOMAIN frame : frame[t].pc = "idle") =>
          /\ NoneOr(_dictionary, [words |-> Dictionary(FALSE),
                                   _settings |-> Some(Settings(FALSE))])
          /\ NoneOr(_normalized_dictionary, [words |-> Dictionary(TRUE),
                                              _settings |-> Some(Settings(TRUE))])
          /\ NoneOr(_simplifications, _generate_simplifications(FALSE))
          /\ NoneOr(_normalized_simplifications, _generate_simplifications(TRUE))
          /\ \/ _simplification_patterns = None
             \/ _simplification_patterns =
                   Some([key \in BuiltPatternKeys |-> Compile(key)])
          /\ \E m \in BOOLEAN :
                /\ NoneOr(_wordchars, _set_wordchars(Dictionary(m)))
                /\ NoneOr(_splitters, Splitters(m))

=============================================================================
